---- MODULE Spec2Model ----
(***************************************************************************)
(* A model of RIPng_Simulator.py: routers that exchange distance-vector    *)
(* updates in synchronous rounds (split horizon, relaxation with the       *)
(* metric capped at 16, timeout aging and garbage collection).             *)
(*                                                                         *)
(* A routing table is a function from destinations to entries (the Python  *)
(* dict keyed by destination); an update is a function from destinations   *)
(* to <<metric, sender_id>> pairs.  garbage_timer is None (the empty       *)
(* sequence) or a one-element sequence holding the counter.                *)
(***************************************************************************)
EXTENDS Integers, Sequences, FiniteSets, TLC

VARIABLES
    routers,    \* NetworkSimulator.routers: ids in the registry, in insertion order
    neighbors,  \* Router.neighbors of every router: a list of router ids
    table,      \* Router.routing_table of every router
    topology,   \* the neighbor lists the network was built with
    round,      \* number of simulate_round calls made so far
    removed,    \* routers deleted from the registry
    start,      \* the tables at the start of the last round
    delivered,  \* per router, the updates merged in the last round, in order
    fresh,      \* per router and destination: rounds since the last accepted finite update
    unreach,    \* per router and destination: consecutive rounds ended at metric 16
    merged,     \* the tables of the last round after delivery, before aging
    fault,      \* TRUE once simulate_round has raised KeyError (line 127)
    call        \* the last operation and its arguments

vars == <<routers, neighbors, table, topology, round, removed, start,
          delivered, fresh, unreach, merged, fault, call>>

(* ------------------------------ bounds --------------------------------- *)

MaxRounds == 12

MaxRemovals == 1

(* ----------------------------- constants ------------------------------- *)

Infinity == 16

TimeoutInit == 3

GarbageInit == 2

None == <<>>

Routers == {"A", "B", "C", "D", "E"}

RouterOrder == <<"A", "B", "C", "D", "E">>

Net == [r \in Routers |->
          CASE r = "A" -> "10.0.0.0"
            [] r = "B" -> "20.0.0.0"
            [] r = "C" -> "30.0.0.0"
            [] r = "D" -> "40.0.0.0"
            [] r = "E" -> "50.0.0.0"]

Dests == {Net[r] : r \in Routers}

RefNeighbors == [r \in Routers |->
          CASE r = "A" -> <<"B", "C">>
            [] r = "B" -> <<"A", "D">>
            [] r = "C" -> <<"A">>
            [] r = "D" -> <<"B", "E">>
            [] r = "E" -> <<"D">>]

CycNeighbors == [r \in Routers |->
          CASE r = "A" -> <<"B", "C">>
            [] r = "B" -> <<"A", "D", "C">>
            [] r = "C" -> <<"A", "B">>
            [] r = "D" -> <<"B", "E">>
            [] r = "E" -> <<"D">>]

Topologies == {RefNeighbors, CycNeighbors}

(* ------------------------------ helpers -------------------------------- *)

Min(a, b) == IF a < b THEN a ELSE b

Range(s) == {s[i] : i \in 1..Len(s)}

EmptyUpdate == <<>>

EmptyTable == <<>>

(* ------------------------- RoutingTableEntry --------------------------- *)

RoutingTableEntry(next_hop, metric) ==
    [next_hop |-> next_hop, metric |-> metric,
     timeout |-> TimeoutInit, garbage_timer |-> None]

add_direct_connection(tbl, self, destination_network) ==
    [d \in (DOMAIN tbl) \cup {destination_network} |->
        IF d = destination_network THEN RoutingTableEntry(self, 0) ELSE tbl[d]]

(* ------------------------ Router.send_routing_update ------------------- *)

SplitHorizonAnyMetric(entry, neighbor) ==
    entry.next_hop = neighbor

SplitHorizonNever(entry, neighbor) == FALSE

SplitHorizon(entry, neighbor) ==
    entry.metric < Infinity /\ entry.next_hop = neighbor

update_for_neighbor(tbl, self, neighbor) ==
    [dest \in {d \in DOMAIN tbl : ~SplitHorizon(tbl[d], neighbor)} |->
        <<tbl[dest].metric, self>>]

send_routing_update(tbl, nbrs, self) ==
    [n \in Range(nbrs) |-> update_for_neighbor(tbl, self, n)]

(* ---------------------- Router.receive_routing_update ------------------ *)

new_metric_noclamp(received_metric) == received_metric + 1

new_metric_noinc(received_metric) == Min(received_metric, Infinity)

new_metric(received_metric) == Min(received_metric + 1, Infinity)

receive_entry_mut(tbl, dest, item, newRaw, tie, keepTimer) ==
    LET sender_id == item[2]
        nm == Min(item[1] + 1, Infinity)
    IN  IF dest \in DOMAIN tbl
        THEN LET existing_entry == tbl[dest] IN
             IF existing_entry.next_hop = sender_id
             THEN [existing_entry EXCEPT
                     !.metric = nm,
                     !.timeout = TimeoutInit,
                     !.garbage_timer = IF nm = Infinity THEN <<GarbageInit>>
                                       ELSE IF keepTimer THEN @ ELSE None]
             ELSE IF nm < existing_entry.metric \/ (tie /\ nm = existing_entry.metric)
                  THEN RoutingTableEntry(sender_id, nm)
                  ELSE existing_entry
        ELSE RoutingTableEntry(sender_id, IF newRaw THEN item[1] ELSE nm)

receive_entry_newraw(tbl, dest, item) ==
    receive_entry_mut(tbl, dest, item, TRUE, FALSE, FALSE)

receive_entry_tie(tbl, dest, item) ==
    receive_entry_mut(tbl, dest, item, FALSE, TRUE, FALSE)

receive_entry_keeptimer(tbl, dest, item) ==
    receive_entry_mut(tbl, dest, item, FALSE, FALSE, TRUE)

receive_entry_neverworse(tbl, dest, item) ==
    LET sender_id == item[2]
        nm == Min(item[1] + 1, Infinity)
    IN  IF dest \in DOMAIN tbl
        THEN LET existing_entry == tbl[dest] IN
             IF existing_entry.next_hop = sender_id /\ nm <= existing_entry.metric
             THEN [existing_entry EXCEPT
                     !.metric = nm,
                     !.timeout = TimeoutInit,
                     !.garbage_timer = IF nm = Infinity
                                       THEN <<GarbageInit>> ELSE None]
             ELSE IF nm < existing_entry.metric
                  THEN RoutingTableEntry(sender_id, nm)
                  ELSE existing_entry
        ELSE RoutingTableEntry(sender_id, nm)

receive_entry_noreset(tbl, dest, item) ==
    LET sender_id == item[2]
        nm == Min(item[1] + 1, Infinity)
    IN  IF dest \in DOMAIN tbl
        THEN LET existing_entry == tbl[dest] IN
             IF existing_entry.next_hop = sender_id
             THEN [existing_entry EXCEPT
                     !.metric = nm,
                     !.garbage_timer = IF nm = Infinity
                                       THEN <<GarbageInit>> ELSE None]
             ELSE IF nm < existing_entry.metric
                  THEN RoutingTableEntry(sender_id, nm)
                  ELSE existing_entry
        ELSE RoutingTableEntry(sender_id, nm)

receive_entry(tbl, dest, item) ==
    LET sender_id == item[2]
        nm == new_metric(item[1])
    IN  IF dest \in DOMAIN tbl
        THEN LET existing_entry == tbl[dest] IN
             IF existing_entry.next_hop = sender_id
             THEN [existing_entry EXCEPT
                     !.metric = nm,
                     !.timeout = TimeoutInit,
                     !.garbage_timer = IF nm = Infinity
                                       THEN <<GarbageInit>> ELSE None]
             ELSE IF nm < existing_entry.metric
                  THEN RoutingTableEntry(sender_id, nm)
                  ELSE existing_entry
        ELSE RoutingTableEntry(sender_id, nm)

receive_routing_update(tbl, from_router, update) ==
    [dest \in (DOMAIN tbl) \cup (DOMAIN update) |->
        IF dest \in DOMAIN update
        THEN receive_entry(tbl, dest, update[dest])
        ELSE tbl[dest]]

receive_updated(tbl, from_router, update) ==
    \E dest \in DOMAIN update :
        \/ dest \notin DOMAIN tbl
        \/ tbl[dest].next_hop = update[dest][2]
        \/ new_metric(update[dest][1]) < tbl[dest].metric

(* --------------------------- Router.age_routes ------------------------- *)

age_entry_noskip(entry) ==
    IF entry.metric < Infinity
    THEN LET t == entry.timeout - 1 IN
         IF t <= 0
         THEN [entry EXCEPT !.timeout = t, !.metric = Infinity,
                            !.garbage_timer = <<GarbageInit>>]
         ELSE [entry EXCEPT !.timeout = t]
    ELSE IF entry.garbage_timer # None
         THEN [entry EXCEPT !.garbage_timer = <<entry.garbage_timer[1] - 1>>]
         ELSE entry

age_entry_late(entry) ==
    IF entry.metric = 0
    THEN entry
    ELSE IF entry.metric < Infinity
         THEN LET t == entry.timeout - 1 IN
              IF t < 0
              THEN [entry EXCEPT !.timeout = t, !.metric = Infinity,
                                 !.garbage_timer = <<GarbageInit>>]
              ELSE [entry EXCEPT !.timeout = t]
         ELSE IF entry.garbage_timer # None
              THEN [entry EXCEPT !.garbage_timer = <<entry.garbage_timer[1] - 1>>]
              ELSE entry

age_entry(entry) ==
    IF entry.metric = 0
    THEN entry
    ELSE IF entry.metric < Infinity
         THEN LET t == entry.timeout - 1 IN
              IF t <= 0
              THEN [entry EXCEPT !.timeout = t, !.metric = Infinity,
                                 !.garbage_timer = <<GarbageInit>>]
              ELSE [entry EXCEPT !.timeout = t]
         ELSE IF entry.garbage_timer # None
              THEN [entry EXCEPT !.garbage_timer = <<entry.garbage_timer[1] - 1>>]
              ELSE entry

age_deletes_late(entry) ==
    /\ entry.metric # 0
    /\ ~(entry.metric < Infinity)
    /\ entry.garbage_timer # None
    /\ entry.garbage_timer[1] - 1 < 0

age_deletes(entry) ==
    /\ entry.metric # 0
    /\ ~(entry.metric < Infinity)
    /\ entry.garbage_timer # None
    /\ entry.garbage_timer[1] - 1 <= 0

age_routes(tbl) ==
    [dest \in {d \in DOMAIN tbl : ~age_deletes(tbl[d])} |-> age_entry(tbl[dest])]

(* --------------------- NetworkSimulator.simulate_round ----------------- *)

all_updates(tbls, nbrs, regs) ==
    [r \in Range(regs) |-> send_routing_update(tbls[r], nbrs[r], r)]

get_update(au, neighbor, router) ==
    IF router \in DOMAIN au[neighbor] THEN au[neighbor][router] ELSE EmptyUpdate

key_error(au, neighbor) == neighbor \notin DOMAIN au

RECURSIVE deliver_neighbors(_, _, _, _)
deliver_neighbors(acc, router, nbrSeq, au) ==
    IF nbrSeq = <<>> \/ acc.fault
    THEN acc
    ELSE IF key_error(au, Head(nbrSeq))
    THEN [acc EXCEPT !.fault = TRUE]
    ELSE LET update == get_update(au, Head(nbrSeq), router) IN
         deliver_neighbors(
            [tbl |-> receive_routing_update(acc.tbl, Head(nbrSeq), update),
             log |-> Append(acc.log, update),
             fault |-> FALSE],
            router, Tail(nbrSeq), au)

RECURSIVE deliver_routers_live(_, _, _, _)
deliver_routers_live(acc, regs, nbrs, au) ==
    IF regs = <<>> \/ acc.fault
    THEN acc
    ELSE LET r == Head(regs)
             live == [n \in DOMAIN au |->
                        send_routing_update(acc.tbls[n], nbrs[n], n)]
             res == deliver_neighbors([tbl |-> acc.tbls[r], log |-> <<>>,
                                       fault |-> FALSE],
                                      r, nbrs[r], live)
         IN  deliver_routers_live(
                [tbls |-> [acc.tbls EXCEPT ![r] = res.tbl],
                 logs |-> [acc.logs EXCEPT ![r] = res.log],
                 fault |-> res.fault],
                Tail(regs), nbrs, au)

RECURSIVE deliver_routers(_, _, _, _)
deliver_routers(acc, regs, nbrs, au) ==
    IF regs = <<>> \/ acc.fault
    THEN acc
    ELSE LET r == Head(regs)
             res == deliver_neighbors([tbl |-> acc.tbls[r], log |-> <<>>,
                                       fault |-> FALSE],
                                      r, nbrs[r], au)
         IN  deliver_routers(
                [tbls |-> [acc.tbls EXCEPT ![r] = res.tbl],
                 logs |-> [acc.logs EXCEPT ![r] = res.log],
                 fault |-> res.fault],
                Tail(regs), nbrs, au)

RECURSIVE age_routers(_, _)
age_routers(tbls, regs) ==
    IF regs = <<>>
    THEN tbls
    ELSE age_routers([tbls EXCEPT ![Head(regs)] = age_routes(tbls[Head(regs)])],
                     Tail(regs))

RECURSIVE live_neighbors(_, _, _, _, _)
live_neighbors(acc, router, nbrSeq, nbrs, regs) ==
    IF nbrSeq = <<>>
    THEN acc
    ELSE LET n == Head(nbrSeq)
             update == get_update(all_updates(acc.tbls, nbrs, regs), n, router)
         IN  live_neighbors(
                [tbls |-> [acc.tbls EXCEPT
                             ![router] = receive_routing_update(@, n, update)],
                 logs |-> [acc.logs EXCEPT ![router] = Append(@, update)]],
                router, Tail(nbrSeq), nbrs, regs)

RECURSIVE live_routers(_, _, _, _)
live_routers(acc, todo, nbrs, regs) ==
    IF todo = <<>>
    THEN acc
    ELSE live_routers(live_neighbors(acc, Head(todo), nbrs[Head(todo)], nbrs, regs),
                      Tail(todo), nbrs, regs)

simulate_round_live(tbls, nbrs, regs) ==
    LET res == live_routers([tbls |-> tbls,
                             logs |-> [r \in Routers |-> <<>>]],
                            regs, nbrs, regs)
    IN  [tbls |-> age_routers(res.tbls, regs), logs |-> res.logs,
         merged |-> res.tbls, fault |-> FALSE]

NoLogs == [r \in Routers |-> <<>>]

simulate_round(tbls, nbrs, regs) ==
    LET au == all_updates(tbls, nbrs, regs)
        res == deliver_routers([tbls |-> tbls, logs |-> NoLogs,
                                fault |-> FALSE],
                               regs, nbrs, au)
    IN  [tbls |-> IF res.fault THEN res.tbls ELSE age_routers(res.tbls, regs),
         logs |-> res.logs, merged |-> res.tbls, fault |-> res.fault]

(* ------------------------------- main ---------------------------------- *)

remove_router(regs, x) == SelectSeq(regs, LAMBDA r : r # x)

strip_neighbor(nbrs, regs, x) ==
    [r \in Routers |->
        IF r \in Range(regs) /\ r # x
        THEN SelectSeq(nbrs[r], LAMBDA n : n # x)
        ELSE nbrs[r]]

NoCall == [op |-> "init"]

accepted_update(tbls, nbrs, logs, r, d) ==
    \E i \in 1..Len(logs[r]) :
        /\ d \in DOMAIN logs[r][i]
        /\ new_metric(logs[r][i][d][1]) < Infinity
        /\ d \in DOMAIN tbls[r]
        /\ tbls[r][d].next_hop = nbrs[r][i]

next_fresh(f, tbls, nbrs, logs, regs) ==
    [r \in Routers |-> [d \in Dests |->
        IF r \notin Range(regs) THEN f[r][d]
        ELSE IF accepted_update(tbls, nbrs, logs, r, d) THEN 0
        ELSE Min(f[r][d] + 1, MaxRounds + 1)]]

next_unreach(u, tbls, regs) ==
    [r \in Routers |-> [d \in Dests |->
        IF r \notin Range(regs) THEN u[r][d]
        ELSE IF d \in DOMAIN tbls[r] /\ tbls[r][d].metric = Infinity
             THEN u[r][d] + 1
             ELSE 0]]

Init ==
    /\ routers = RouterOrder
    /\ topology \in Topologies
    /\ neighbors = topology
    /\ table = [r \in Routers |-> add_direct_connection(EmptyTable, r, Net[r])]
    /\ round = 0
    /\ removed = {}
    /\ start = table
    /\ delivered = [r \in Routers |-> <<>>]
    /\ fresh = [r \in Routers |-> [d \in Dests |-> 0]]
    /\ unreach = [r \in Routers |-> [d \in Dests |-> 0]]
    /\ merged = table
    /\ fault = FALSE
    /\ call = NoCall

SimulateRound ==
    /\ round < MaxRounds
    /\ ~fault
    /\ LET res == simulate_round(table, neighbors, routers) IN
        /\ table' = res.tbls
        /\ delivered' = res.logs
        /\ merged' = res.merged
        /\ fault' = res.fault
        /\ fresh' = next_fresh(fresh, res.tbls, neighbors, res.logs, routers)
        /\ unreach' = next_unreach(unreach, res.tbls, routers)
    /\ start' = table
    /\ round' = round + 1
    /\ call' = [op |-> "simulate_round"]
    /\ UNCHANGED <<routers, neighbors, topology, removed>>

RemoveRouter ==
    \E x \in Range(routers) :
        /\ Cardinality(removed) < MaxRemovals
        /\ ~fault
        /\ routers' = remove_router(routers, x)
        /\ neighbors' = strip_neighbor(neighbors, routers, x)
        /\ removed' = removed \cup {x}
        /\ call' = [op |-> "remove", router |-> x]
        /\ UNCHANGED <<table, topology, round, start, delivered, fresh,
                       unreach, merged, fault>>

Next == SimulateRound \/ RemoveRouter

Spec == Init /\ [][Next]_vars

(* ------------- deleting a router without stripping its links ----------- *)

DeleteRouter ==
    \E x \in Range(routers) :
        /\ Cardinality(removed) < MaxRemovals
        /\ ~fault
        /\ routers' = remove_router(routers, x)
        /\ removed' = removed \cup {x}
        /\ call' = [op |-> "delete", router |-> x]
        /\ UNCHANGED <<neighbors, table, topology, round, start, delivered,
                       fresh, unreach, merged, fault>>

DanglingNext == SimulateRound \/ DeleteRouter

DanglingSpec == Init /\ [][DanglingNext]_vars

(* ----------------- one Router under arbitrary updates ------------------ *)

UnitRouter == "A"

UnitSenders == {"B", "C"}

UnitDests == {"20.0.0.0", "50.0.0.0"}

UnitMetrics == {-2, -1, 0, 1, 15, 16, 17}

UnitUpdates(s) ==
    {[d \in D |-> <<m, s>>] : D \in SUBSET UnitDests, m \in UnitMetrics}

RouterInit == Init /\ topology = RefNeighbors

Receive ==
    \E s \in UnitSenders : \E u \in UnitUpdates(s) :
        /\ table' = [table EXCEPT
                       ![UnitRouter] = receive_routing_update(@, s, u)]
        /\ call' = [op |-> "receive", router |-> UnitRouter, from |-> s,
                    update |-> u, before |-> table[UnitRouter],
                    updated |-> receive_updated(table[UnitRouter], s, u)]
        /\ UNCHANGED <<routers, neighbors, topology, round, removed, start,
                       delivered, fresh, unreach, merged, fault>>

Age ==
    /\ table' = [table EXCEPT ![UnitRouter] = age_routes(@)]
    /\ call' = [op |-> "age", router |-> UnitRouter,
                before |-> table[UnitRouter]]
    /\ UNCHANGED <<routers, neighbors, topology, round, removed, start,
                   delivered, fresh, unreach, merged, fault>>

RouterNext == Receive \/ Age

RouterSpec == RouterInit /\ [][RouterNext]_vars

(* ------------------------------ properties ----------------------------- *)

Entries == {<<r, d>> \in Routers \X Dests : d \in DOMAIN table[r]}

\* C1: in every state reached by rounds (with or without a router removal)
\* from tables seeded by add_direct_connection, every entry of every
\* routing table has 0 <= metric <= 16.
MetricInRange ==
    \A e \in Entries :
        /\ 0 <= table[e[1]][e[2]].metric
        /\ table[e[1]][e[2]].metric <= 16

\* A round in which a router merged an advertised 16 (16 + 1 is capped) and
\* holds that destination at 16.
MetricInRangeWitness ==
    /\ call.op = "simulate_round"
    /\ \E r \in Range(routers) : \E i \in 1..Len(delivered[r]) :
         \E d \in DOMAIN delivered[r][i] :
            /\ delivered[r][i][d][1] = 16
            /\ d \in DOMAIN table[r]
            /\ table[r][d].metric = 16

\* C2: for every entry of every routing table, garbage_timer is set if and
\* only if metric = 16.
GarbageTimerIffInfinity ==
    \A e \in Entries :
        (table[e[1]][e[2]].garbage_timer # None) <=> (table[e[1]][e[2]].metric = 16)

\* C3: after E is removed from the reference network, every remaining
\* router's entry for E's network is at 16 (or gone) once 3 rounds have
\* passed since the last valid update, and no entry for E's network ends more
\* than 2 rounds at metric 16 before it is deleted.
RemovedRouteExpiresAndIsCollected ==
    (topology = RefNeighbors /\ removed = {"E"}) =>
        \A r \in Range(routers) :
            /\ (Net["E"] \in DOMAIN table[r] /\ table[r][Net["E"]].metric < 16)
                   => fresh[r][Net["E"]] < 3
            /\ unreach[r][Net["E"]] <= 2

LinePos == [r \in Routers |->
          CASE r = "C" -> 1
            [] r = "A" -> 2
            [] r = "B" -> 3
            [] r = "D" -> 4
            [] r = "E" -> 5]

HopDistance(r, o) ==
    IF LinePos[r] < LinePos[o] THEN LinePos[o] - LinePos[r]
                               ELSE LinePos[r] - LinePos[o]

\* C4: in the reference topology with no router removed, after 5 rounds
\* every router holds an entry for each of the five networks whose metric
\* is finite and equals the hop distance to the network's owner.
ConvergesToHopDistance ==
    (topology = RefNeighbors /\ removed = {} /\ round >= 5) =>
        \A r \in Routers : \A o \in Routers :
            /\ Net[o] \in DOMAIN table[r]
            /\ table[r][Net[o]].metric < 16
            /\ table[r][Net[o]].metric = HopDistance(r, o)

ConvergesWitness ==
    /\ topology = RefNeighbors
    /\ removed = {}
    /\ round = 5
    /\ Net["E"] \in DOMAIN table["C"]
    /\ table["C"][Net["E"]].metric = 4

\* C5: the update a router builds for neighbor N holds exactly the entries
\* that do not satisfy (metric < 16 and next_hop = N), each as
\* (metric, sender id): no destination routed through N unless it is at 16,
\* and every metric-16 entry for every neighbor.
SplitHorizonUpdate ==
    \A r \in Range(routers) : \A i \in 1..Len(neighbors[r]) :
        LET N == neighbors[r][i]
            u == send_routing_update(table[r], neighbors[r], r)[N]
        IN  /\ DOMAIN u \subseteq DOMAIN table[r]
            /\ \A d \in DOMAIN table[r] :
                 /\ (d \in DOMAIN u) <=>
                       ~(table[r][d].metric < 16 /\ table[r][d].next_hop = N)
                 /\ (d \in DOMAIN u) => u[d] = <<table[r][d].metric, r>>
                 /\ (d \in DOMAIN u /\ table[r][d].next_hop = N)
                       => table[r][d].metric = 16
                 /\ (table[r][d].metric = 16) => d \in DOMAIN u

\* A router that sends its next hop N a poisoned route through N while it
\* suppresses a live route through N.
SplitHorizonWitness ==
    \E r \in Range(routers) : \E i \in 1..Len(neighbors[r]) :
        LET N == neighbors[r][i]
            u == send_routing_update(table[r], neighbors[r], r)[N]
        IN  \E d1 \in DOMAIN table[r] : \E d2 \in DOMAIN table[r] :
                /\ table[r][d1].next_hop = N
                /\ table[r][d1].metric = 16
                /\ d1 \in DOMAIN u
                /\ table[r][d2].next_hop = N
                /\ table[r][d2].metric < 16
                /\ d2 \notin DOMAIN u

\* C6: a directly-connected entry is unaffected by aging and by rounds: it
\* keeps metric 0, the owning router as next hop, its initial timeout and
\* no garbage timer.
DirectRouteUnaffected ==
    \A r \in Routers :
        /\ Net[r] \in DOMAIN table[r]
        /\ table[r][Net[r]] =
             [next_hop |-> r, metric |-> 0, timeout |-> 3, garbage_timer |-> None]

\* Five rounds of merging and aging have run and a learned route of D has
\* been aged while D's direct route is still at metric 0.
DirectRouteWitness ==
    /\ round >= 5
    /\ call.op = "simulate_round"
    /\ "D" \in Range(routers)
    /\ table["D"][Net["D"]].metric = 0
    /\ \E d \in DOMAIN table["D"] : table["D"][d].timeout < 3

Candidate(m) == IF m + 1 < 16 THEN m + 1 ELSE 16

\* C7: merging (dest, m) from S into a table with no entry for dest yields
\* an entry with metric min(m+1, 16), next hop S and timeout 3, and the
\* call reports a change.
UnknownDestinationRelaxed ==
    call.op = "receive" =>
        \A d \in DOMAIN call.update :
            d \notin DOMAIN call.before =>
                /\ d \in DOMAIN table[call.router]
                /\ table[call.router][d].metric = Candidate(call.update[d][1])
                /\ table[call.router][d].next_hop = call.from
                /\ table[call.router][d].timeout = 3
                /\ call.updated

UnknownDestinationWitness ==
    /\ call.op = "receive"
    /\ \E d \in DOMAIN call.update :
         /\ d \notin DOMAIN call.before
         /\ call.update[d][1] = 15
         /\ table[call.router][d].metric = 16

\* C8: an update from a sender that is not the entry's next hop replaces
\* the entry (next hop = sender, candidate metric, timeout 3, no garbage
\* timer) only if the candidate is strictly less than the stored metric;
\* otherwise the entry is left unchanged.
TieKeepsExisting ==
    call.op = "receive" =>
        \A d \in (DOMAIN call.update) \cap (DOMAIN call.before) :
            call.before[d].next_hop # call.from =>
                IF Candidate(call.update[d][1]) < call.before[d].metric
                THEN table[call.router][d] =
                       [next_hop |-> call.from,
                        metric |-> Candidate(call.update[d][1]),
                        timeout |-> 3, garbage_timer |-> None]
                ELSE table[call.router][d] = call.before[d]

\* An equal candidate from another neighbor met a live route and left it.
TieWitness ==
    /\ call.op = "receive"
    /\ \E d \in (DOMAIN call.update) \cap (DOMAIN call.before) :
         /\ call.before[d].next_hop # call.from
         /\ call.before[d].metric < 16
         /\ Candidate(call.update[d][1]) = call.before[d].metric
         /\ table[call.router][d] = call.before[d]

\* A strictly better candidate from another neighbor replaced the route.
BetterPathWitness ==
    /\ call.op = "receive"
    /\ \E d \in (DOMAIN call.update) \cap (DOMAIN call.before) :
         /\ call.before[d].next_hop # call.from
         /\ 0 < Candidate(call.update[d][1])
         /\ Candidate(call.update[d][1]) < call.before[d].metric
         /\ table[call.router][d].next_hop = call.from

Revives(c, d) ==
    /\ d \in DOMAIN c.before
    /\ c.before[d].metric = 16
    /\ c.before[d].garbage_timer # None
    /\ c.before[d].next_hop = c.from
    /\ 0 <= c.update[d][1]
    /\ Candidate(c.update[d][1]) < 16

RoundSnapshot ==
    call.op = "simulate_round" =>
        \A r \in Range(routers) :
            /\ Len(delivered[r]) = Len(neighbors[r])
            /\ \A i \in 1..Len(neighbors[r]) :
                 LET N == neighbors[r][i] IN
                 delivered[r][i] =
                    IF r \in Range(neighbors[N])
                    THEN [d \in {x \in DOMAIN start[N] :
                                   ~(start[N][x].metric < 16
                                     /\ start[N][x].next_hop = r)} |->
                            <<start[N][d].metric, N>>]
                    ELSE EmptyUpdate

\* A round in which a router that merged earlier in the delivery order
\* changed its table, and a later router still got that router's
\* start-of-round slice.
RoundSnapshotWitness ==
    /\ call.op = "simulate_round"
    /\ \E r \in Range(routers) : \E i \in 1..Len(neighbors[r]) :
         LET N == neighbors[r][i] IN
         /\ N \in Range(routers)
         /\ DOMAIN table[N] # DOMAIN start[N]
         /\ DOMAIN delivered[r][i] \subseteq DOMAIN start[N]
         /\ delivered[r][i] # EmptyUpdate

\* C11: a round in which a router's neighbor list names a router that is not
\* in the registry completes without a fault, and the missing neighbor is
\* merged as an empty update.
DanglingNeighborIsEmptyUpdate ==
    call.op = "simulate_round" =>
        /\ ~fault
        /\ \A r \in Range(routers) :
             /\ Len(delivered[r]) = Len(neighbors[r])
             /\ \A i \in 1..Len(neighbors[r]) :
                  neighbors[r][i] \notin Range(routers)
                     => delivered[r][i] = EmptyUpdate

\* C12: a received metric outside [0,16], negative or above 16, is processed
\* as if it were 16: the entry ends as it would for a received 16 and its
\* stored metric stays in [0,16].
OutOfRangeTreatedAsInfinity ==
    call.op = "receive" =>
        \A d \in DOMAIN call.update :
            (call.update[d][1] < 0 \/ call.update[d][1] > 16) =>
                /\ table[call.router][d] =
                     receive_entry(call.before, d, <<16, call.from>>)
                /\ 0 <= table[call.router][d].metric
                /\ table[call.router][d].metric <= 16

\* C13: an update from the entry's current next hop sets the metric to the
\* candidate min(m+1,16) whether better or worse, resets timeout to 3, sets
\* garbage_timer to 2 if the candidate is 16 and to None otherwise, and
\* leaves the next hop as it was.
NextHopUpdateAdopted ==
    call.op = "receive" =>
        \A d \in (DOMAIN call.update) \cap (DOMAIN call.before) :
            call.before[d].next_hop = call.from =>
                table[call.router][d] =
                    [next_hop |-> call.before[d].next_hop,
                     metric |-> Candidate(call.update[d][1]),
                     timeout |-> 3,
                     garbage_timer |-> IF Candidate(call.update[d][1]) = 16
                                       THEN <<2>> ELSE None]

\* The current next hop advertised a worse finite metric and it was adopted.
NextHopUpdateWitness ==
    /\ call.op = "receive"
    /\ \E d \in (DOMAIN call.update) \cap (DOMAIN call.before) :
         /\ call.before[d].next_hop = call.from
         /\ call.before[d].metric > 0
         /\ call.before[d].timeout < 3
         /\ Candidate(call.update[d][1]) > call.before[d].metric
         /\ Candidate(call.update[d][1]) < 16
         /\ table[call.router][d].metric = Candidate(call.update[d][1])

\* C14: aging takes exactly one off the timeout of every entry with
\* 0 < metric < 16 and keeps the entry; when the timeout reaches <= 0 the
\* entry gets metric 16 and garbage_timer 2 in that call; so a learned route
\* last refreshed in round k is still active with timeout 1 after round k+1
\* and is unreachable at the end of round k+2.
TimeoutExpiry ==
    \A r \in Range(routers) :
        /\ \A d \in DOMAIN merged[r] :
             (0 < merged[r][d].metric /\ merged[r][d].metric < 16) =>
                /\ d \in DOMAIN table[r]
                /\ table[r][d].timeout = merged[r][d].timeout - 1
                /\ table[r][d].next_hop = merged[r][d].next_hop
                /\ IF table[r][d].timeout <= 0
                   THEN /\ table[r][d].metric = 16
                        /\ table[r][d].garbage_timer = <<2>>
                   ELSE /\ table[r][d].metric = merged[r][d].metric
                        /\ table[r][d].garbage_timer = merged[r][d].garbage_timer
        /\ \A d \in DOMAIN table[r] :
             /\ (0 < table[r][d].metric /\ table[r][d].metric < 16)
                   => table[r][d].timeout = 2 - fresh[r][d]
             /\ (table[r][d].metric # 0 /\ fresh[r][d] >= 2)
                   => table[r][d].metric = 16

\* A learned route whose last refresh was two rounds ago has just been
\* marked unreachable by aging and is still in the table.
TimeoutExpiryWitness ==
    /\ call.op = "simulate_round"
    /\ \E r \in Range(routers) : \E d \in DOMAIN table[r] :
         /\ fresh[r][d] = 2
         /\ d \in DOMAIN merged[r]
         /\ merged[r][d].metric < 16
         /\ merged[r][d].timeout = 1
         /\ table[r][d].metric = 16
         /\ table[r][d].timeout = 0
         /\ table[r][d].garbage_timer = <<2>>

\* C15: age_routes deletes an entry exactly when it has metric 16 and a set
\* garbage_timer that is <= 0 after being decremented; entries below 16 are
\* never deleted, and receive_routing_update removes no entry.
GarbageCollection ==
    /\ call.op = "age" =>
         \A d \in DOMAIN call.before :
            /\ (d \notin DOMAIN table[call.router]) <=>
                  /\ call.before[d].metric = 16
                  /\ call.before[d].garbage_timer # None
                  /\ call.before[d].garbage_timer[1] - 1 <= 0
            /\ call.before[d].metric < 16 => d \in DOMAIN table[call.router]
    /\ call.op = "receive" =>
         DOMAIN call.before \subseteq DOMAIN table[call.router]

\* An aging call that deleted one entry and kept another metric-16 entry.
GarbageCollectionWitness ==
    /\ call.op = "age"
    /\ \E d \in DOMAIN call.before : d \notin DOMAIN table[call.router]
    /\ \E d \in DOMAIN table[call.router] : table[call.router][d].metric = 16

Orders(regs) ==
    {p \in [1..Len(regs) -> Range(regs)] : Range(p) = Range(regs)}

\* C16: the tables after a round do not depend on the order in which the
\* routers are visited: delivering in any order of the registry gives the
\* same merged tables, and aging them in any order gives the same tables
\* (updates are produced from the start-of-round tables only).
RouterOrderIndependent ==
    call.op = "simulate_round" =>
        LET au == all_updates(start, neighbors, routers) IN
        /\ \A p \in Orders(routers) :
             deliver_routers([tbls |-> start, logs |-> NoLogs, fault |-> FALSE],
                             p, neighbors, au).tbls = merged
        /\ \A q \in Orders(routers) : age_routers(merged, q) = table

\* A round in which two routers changed their tables in delivery and aging
\* deleted an entry.
RouterOrderWitness ==
    /\ call.op = "simulate_round"
    /\ \E r1 \in Range(routers) : \E r2 \in Range(routers) :
         /\ r1 # r2
         /\ merged[r1] # start[r1]
         /\ merged[r2] # start[r2]
    /\ \E r \in Range(routers) : DOMAIN table[r] # DOMAIN merged[r]

Settled == simulate_round(table, neighbors, routers).tbls = table

\* C17: unreachable routes do not linger: once further rounds no longer
\* change any table (the run has reached its final tables), no entry is
\* left at metric 16 and no remaining router holds an entry for the network
\* of a removed router.
UnreachableRoutesCollected ==
    (~fault /\ Settled) =>
        /\ \A r \in Range(routers) : \A d \in DOMAIN table[r] :
             table[r][d].metric # 16
        /\ \A x \in removed : \A r \in Range(routers) :
             Net[x] \notin DOMAIN table[r]

\* C18: in the reference network, before and after E is removed, every
\* entry's metric is the hop distance from its holder to the network's
\* owner in the original topology, or 16.
NoCountToInfinity ==
    (topology = RefNeighbors /\ removed \subseteq {"E"}) =>
        \A r \in Routers : \A o \in Routers :
            Net[o] \in DOMAIN table[r] =>
                \/ table[r][Net[o]].metric = HopDistance(r, o)
                \/ table[r][Net[o]].metric = 16

\* E is gone, D already holds E's network at 16 and C still holds it at its
\* old hop distance.
NoCountToInfinityWitness ==
    /\ topology = RefNeighbors
    /\ removed = {"E"}
    /\ Net["E"] \in DOMAIN table["D"]
    /\ table["D"][Net["E"]].metric = 16
    /\ Net["E"] \in DOMAIN table["C"]
    /\ table["C"][Net["E"]].metric = 4

AllTablesFull == \A r \in Routers : DOMAIN table[r] = Dests

\* C19: in the reference network with no router removed, a round marks no
\* entry unreachable and deletes none; every learned route is refreshed in
\* the round and ends it with timeout 2; and once all tables hold all five
\* networks a round changes no next hop and no metric.
SteadyState ==
    [][ (topology = RefNeighbors /\ removed' = {} /\ round' = round + 1) =>
           \A r \in Routers :
              /\ DOMAIN table[r] \subseteq DOMAIN table'[r]
              /\ \A d \in DOMAIN table'[r] :
                   /\ table'[r][d].metric < 16
                   /\ table'[r][d].garbage_timer = None
                   /\ table'[r][d].metric > 0 =>
                        /\ table'[r][d].timeout = 2
                        /\ fresh'[r][d] = 0
              /\ AllTablesFull =>
                   \A d \in DOMAIN table[r] :
                      /\ table'[r][d].next_hop = table[r][d].next_hop
                      /\ table'[r][d].metric = table[r][d].metric
      ]_vars

\* A round that started from full tables and ended with C's route to E's
\* network refreshed.
SteadyStateWitness ==
    /\ topology = RefNeighbors
    /\ removed = {}
    /\ call.op = "simulate_round"
    /\ \A r \in Routers : DOMAIN start[r] = Dests
    /\ AllTablesFull
    /\ table["C"][Net["E"]].timeout = 2
    /\ fresh["C"][Net["E"]] = 0

\* C20: an entry has metric 0 exactly when its next hop is the router that
\* holds it; every entry learned from a neighbor has metric >= 1.
ZeroMetricIffOwnRoute ==
    \A r \in Routers : \A d \in DOMAIN table[r] :
        /\ (table[r][d].metric = 0) <=> (table[r][d].next_hop = r)
        /\ (table[r][d].next_hop # r) => table[r][d].metric >= 1

\* A router holds its own network at 0, a learned route at 1 and a learned
\* route at 16.
ZeroMetricWitness ==
    \E r \in Range(routers) : \E d1 \in DOMAIN table[r] : \E d2 \in DOMAIN table[r] :
        /\ table[r][Net[r]].metric = 0
        /\ table[r][d1].next_hop # r
        /\ table[r][d1].metric = 1
        /\ table[r][d2].next_hop # r
        /\ table[r][d2].metric = 16

====
